---- MODULE Spec2Model ----
(***************************************************************************)
(* A model of buffer-reader's BufferReader (src/lib.rs): a cursor over a   *)
(* borrowed byte slice.  The reader stores only the remaining slice        *)
(* (Cell<&[u8]>); a slice is a start pointer and a length, modelled as an  *)
(* offset into the region given to new() and a length.                     *)
(*                                                                         *)
(* usize is modelled with the 16-bit pointer width, the narrowest one Rust *)
(* supports; arithmetic overflow panics when the build has overflow checks *)
(* (debug profile) and wraps otherwise (release profile).  A panic unwinds *)
(* out of the method before any Cell::set, so it leaves the reader as it   *)
(* was.                                                                    *)
(***************************************************************************)
EXTENDS Integers, Sequences, FiniteSets, TLC

\* ---------------------------------------------------------------- bounds
MaxRegionLen == 3

MaxPatLen == 2

\* byte values of the region and of patterns
Byte == {0, 1}
\* what a destination buffer holds before a read: no byte of the region
DestBytes == {2}
\* size_of::<T>() of the plain-data types the typed operations are used with
TypeSizes == {1, 2}

UsizeBits == 16
UsizeMod == 2 ^ UsizeBits
UsizeMax == UsizeMod - 1

\* usize arguments: every value up to one past the region's length, and the
\* values whose sums and products with TypeSizes leave the usize range
SmallArgs == 0 .. (MaxRegionLen + 1)
Offsets == SmallArgs \cup {UsizeMax}
Counts == SmallArgs \cup {UsizeMod \div 2, UsizeMod \div 2 + 1}
\* (start, count, size) of a range peek: the ranges that end at most one past
\* the region's length, and those whose end leaves the usize range
PeekArgs ==
    {t \in SmallArgs \X SmallArgs \X TypeSizes : t[1] + t[2] * t[3] <= MaxRegionLen + 1}
    \cup {t \in {0, 1, UsizeMax} \X {0, 1, UsizeMod \div 2, UsizeMax} \X TypeSizes :
            t[1] + t[2] * t[3] >= UsizeMax}

SeqsUpTo(S, n) == UNION {[1 .. k -> S] : k \in 0 .. n}
Regions == SeqsUpTo(Byte, MaxRegionLen)
Patterns == SeqsUpTo(Byte, MaxPatLen)
DestBufs == SeqsUpTo(DestBytes, MaxRegionLen + 1)

VARIABLES
    region,           \* the slice given to new(): fixed, owned by the caller
    buffer,           \* BufferReader.buffer: the remaining slice [ptr, len]
    overflow_checks,  \* build profile: TRUE = overflow panics, FALSE = wraps
    consumed,         \* get_remaining(self) has taken the reader by value
    call,             \* the last call: operation, arguments, reader before it
    result,           \* what the last call returned
    requested,        \* sum of the byte lengths asked of advancing calls, saturating
                      \* at one past the region's length
    last_end,         \* end offset of the last range an advancing call returned
    handed,           \* the ranges handed out by advancing calls so far: the offsets
                      \* they cover, and whether two of them overlapped
    twin              \* a second reader over the same region, not the one being
                      \* called: its buffer, its last call and what that returned

vars == <<region, buffer, overflow_checks, consumed, call, result, requested, last_end,
          handed, twin>>

\* ---------------------------------------------------------------- slices
Min(a, b) == IF a <= b THEN a ELSE b

EmptySlice == [ptr |-> 0, len |-> 0]

\* Rust's range check on s[a..b]: a panic unless a <= b <= s.len()
RangeOk(s, a, b) == a <= b /\ b <= s.len

\* s[a..b] as a slice (a view into the region, no copy)
SubSlice(s, a, b) == [ptr |-> s.ptr + a, len |-> b - a]

\* the bytes a slice views
Bytes(s) == SubSeq(region, s.ptr + 1, s.ptr + s.len)

\* the offsets of the region a slice covers; every offset past the end of the
\* region counts as the offset Len(region)
RangeOffsets(s) == s.ptr .. (Min(s.ptr + s.len, Len(region) + 1) - 1)

\* usize arithmetic: the mathematical result x is out of range?
Overflows(x) == x < 0 \/ x > UsizeMax
Wrap(x) == x % UsizeMod

\* ------------------------------------------------- calls and their results
NoBytes == <<>>

Call(op, a, b, size, pat, dst) ==
    [op |-> op, a |-> a, b |-> b, size |-> size, pat |-> pat, dst |-> dst,
     before |-> buffer, prev_end |-> last_end]

Result(outcome, ret, val, flag, dst) ==
    [outcome |-> outcome, ret |-> ret, val |-> val, flag |-> flag, dst |-> dst]

\* Ok(&[u8]) or Ok(&T) or Ok(&[T]): a view of the region
OkView(ret) == Result("Ok", ret, 0, FALSE, NoBytes)
\* Ok(u8), Ok(usize), a usize; ret is the range the value was taken from
OkVal(ret, v) == Result("Ok", ret, v, FALSE, NoBytes)
\* Err(ErrorKind::UnexpectedEof)
ErrEof == Result("Err", EmptySlice, 0, FALSE, NoBytes)
\* a panic: overflow with overflow checks, or an index out of range
Panic == Result("Panic", EmptySlice, 0, FALSE, NoBytes)

\* ------------------------------------------------------ the private methods
\* check_available with >= for >: a full-length request is refused
check_available_strict(n) == ~(n >= buffer.len)

\* check_available that lets a request of one byte too many pass
check_available_lenient(n) == ~(n > buffer.len + 1)

\* check_available: TRUE is Ok(()), FALSE is Err(UnexpectedEof)
check_available(n) == ~(n > buffer.len)

\* advance: buffer[len..] and buffer[..len] both panic unless len <= buffer.len
advance_ok(n) == RangeOk(buffer, n, buffer.len) /\ RangeOk(buffer, 0, n)
\* advance that moves the start and keeps the length
advance_rest_keep_len(n) == [ptr |-> buffer.ptr + n, len |-> buffer.len]
\* advance that slices the region given to new() instead of the remaining buffer
advance_rest_of_region(n) == [ptr |-> n, len |-> Len(region) - n]

\* self.buffer.set(&buffer[len..])
advance_rest(n) == SubSlice(buffer, n, buffer.len)
\* advance that returns the first bytes of the region given to new()
advance_head_of_region(n) == [ptr |-> 0, len |-> n]

\* &buffer[..len]
advance_head(n) == SubSlice(buffer, 0, n)

\* peek_remaining / get_remaining / len / is_empty read the Cell
peek_remaining == buffer
\* len() that answers for the slice given to new()
len_of_region == Len(region)

len == buffer.len
is_empty == buffer.len = 0

\* -------------------------------------------------------------- frames
\* a call that returns r and leaves the reader with buffer b
Returns(c, r, b) ==
    /\ call' = c
    /\ result' = r
    /\ buffer' = b
    /\ UNCHANGED <<region, overflow_checks, twin>>

\* bookkeeping of an advancing call that asked for n bytes; head is the range
\* advance returned, when it was reached
Asked(n, advanced, head) ==
    /\ requested' = Min(requested + n, Len(region) + 1)
    /\ last_end' = IF advanced THEN head.ptr + head.len ELSE last_end
    /\ handed' = IF advanced
                 THEN [covered |-> handed.covered \cup RangeOffsets(head),
                       overlap |-> handed.overlap
                                     \/ handed.covered \cap RangeOffsets(head) # {}]
                 ELSE handed

NotAsked == UNCHANGED <<requested, last_end, handed>>

\* check_available(n)?; advance(n): the reader after it, and whether advance
\* was reached and did not panic
Advanced(n) == check_available(n) /\ advance_ok(n)
\* a failed check that still advances over what is left
AfterAdvance_partial(n) == advance_rest(Min(n, buffer.len))

AfterAdvance(n) == IF Advanced(n) THEN advance_rest(n) ELSE buffer
Outcome(n, ok) == IF ~check_available(n) THEN ErrEof ELSE IF ~advance_ok(n) THEN Panic ELSE ok

\* ------------------------------------------------------------ operations
\* read_t without the call of check_available
read_t_unchecked(size) ==
    /\ ~consumed
    /\ Returns(Call("read_t", 0, 0, size, NoBytes, NoBytes),
               IF advance_ok(size) THEN OkView(advance_head(size)) ELSE Panic,
               IF advance_ok(size) THEN advance_rest(size) ELSE buffer)
    /\ Asked(size, advance_ok(size), advance_head(size))
    /\ UNCHANGED consumed

\* read_t::<T>() with size_of::<T>() = size
read_t(size) ==
    /\ ~consumed
    /\ Returns(Call("read_t", 0, 0, size, NoBytes, NoBytes),
               Outcome(size, OkView(advance_head(size))),
               AfterAdvance(size))
    /\ Asked(size, Advanced(size), advance_head(size))
    /\ UNCHANGED consumed

\* read_byte()
read_byte ==
    /\ ~consumed
    /\ Returns(Call("read_byte", 0, 0, 1, NoBytes, NoBytes),
               Outcome(1, OkVal(advance_head(1), Bytes(advance_head(1))[1])),
               AfterAdvance(1))
    /\ Asked(1, Advanced(1), advance_head(1))
    /\ UNCHANGED consumed

\* read_bytes(n)
read_bytes(n) ==
    /\ ~consumed
    /\ Returns(Call("read_bytes", n, 0, 1, NoBytes, NoBytes),
               Outcome(n, OkView(advance_head(n))),
               AfterAdvance(n))
    /\ Asked(n, Advanced(n), advance_head(n))
    /\ UNCHANGED consumed

\* read_slice_t::<T>(count): size = count * size_of::<T>() in usize; the slice
\* returned is from_raw_parts(slice.as_ptr(), count), count elements of T
read_slice_t(count, size) ==
    LET product == count * size
        bytes == Wrap(product)
        view == [ptr |-> buffer.ptr, len |-> product]
    IN  /\ ~consumed
        /\ IF Overflows(product) /\ overflow_checks
           THEN /\ Returns(Call("read_slice_t", count, 0, size, NoBytes, NoBytes), Panic, buffer)
                /\ Asked(product, FALSE, view)
           ELSE /\ Returns(Call("read_slice_t", count, 0, size, NoBytes, NoBytes),
                           Outcome(bytes, OkView(view)),
                           AfterAdvance(bytes))
                /\ Asked(product, Advanced(bytes), view)
        /\ UNCHANGED consumed

\* a peek that consumes the range it returned
Peeks_consuming(c, r) ==
    /\ ~consumed
    /\ Returns(c, r, IF r.outcome = "Ok" /\ r.ret.len <= buffer.len
                      THEN advance_rest(r.ret.len) ELSE buffer)
    /\ NotAsked
    /\ UNCHANGED consumed

\* a non-advancing call
Peeks(c, r) ==
    /\ ~consumed
    /\ Returns(c, r, buffer)
    /\ NotAsked
    /\ UNCHANGED consumed

\* check_available(end)?; &self.peek_remaining()[start..end], viewed as view
PeekRange(start, end, view) ==
    IF ~check_available(end) THEN ErrEof
    ELSE IF ~RangeOk(peek_remaining, start, end) THEN Panic
    ELSE OkView(view)

\* peek_t that takes start from the start of the region given to new()
peek_t_absolute(start, size) ==
    Peeks(Call("peek_t", start, 0, size, NoBytes, NoBytes),
          IF Overflows(start + size) /\ overflow_checks THEN Panic
          ELSE PeekRange(start, Wrap(start + size), [ptr |-> start, len |-> size]))

\* peek_t::<T>(start) with size_of::<T>() = size: end = start + size in usize
peek_t(start, size) ==
    LET sum == start + size
        end == Wrap(sum)
    IN  Peeks(Call("peek_t", start, 0, size, NoBytes, NoBytes),
              IF Overflows(sum) /\ overflow_checks THEN Panic
              ELSE PeekRange(start, end, SubSlice(peek_remaining, start, end)))

\* peek_slice_t::<T>(start, count): end = start + (size_of::<T>() * count) in
\* usize; the slice returned is from_raw_parts(slice.as_ptr(), count)
peek_slice_t(start, count, size) ==
    LET product == size * count
        sum == start + Wrap(product)
        end == Wrap(sum)
    IN  Peeks(Call("peek_slice_t", start, count, size, NoBytes, NoBytes),
              IF (Overflows(product) \/ Overflows(sum)) /\ overflow_checks THEN Panic
              ELSE PeekRange(start, end,
                             [ptr |-> peek_remaining.ptr + start, len |-> product]))

\* peek_byte(pos): check_available(1)?; self.peek_remaining()[pos]
peek_byte(pos) ==
    Peeks(Call("peek_byte", pos, 0, 1, NoBytes, NoBytes),
          IF ~check_available(1) THEN ErrEof
          ELSE IF ~(pos < peek_remaining.len) THEN Panic
          ELSE OkVal(SubSlice(peek_remaining, pos, pos + 1), Bytes(peek_remaining)[pos + 1]))

\* peek_bytes(start, n): end = start + n in usize
peek_bytes(start, n) ==
    LET sum == start + n
        end == Wrap(sum)
    IN  Peeks(Call("peek_bytes", start, n, 1, NoBytes, NoBytes),
              IF Overflows(sum) /\ overflow_checks THEN Panic
              ELSE PeekRange(start, end, SubSlice(peek_remaining, start, end)))

\* the while loop of find_bytes from index i: Some(i), None, or the panic of
\* buffer[i..pat_len + i] out of range
RECURSIVE find_loop(_, _, _)
find_loop(pat, i, bound) ==
    IF ~(i < bound) THEN Result("None", EmptySlice, 0, FALSE, NoBytes)
    ELSE IF ~RangeOk(buffer, i, Len(pat) + i) THEN Panic
    ELSE IF Bytes(SubSlice(buffer, i, Len(pat) + i)) = pat
         THEN Result("Some", EmptySlice, i, FALSE, NoBytes)
    ELSE find_loop(pat, i + 1, bound)

\* find_bytes whose loop bound is buffer.len() - pat_len
find_bytes_short(pat) ==
    LET bound == buffer.len - Len(pat)
    IN  Peeks(Call("find_bytes", 0, 0, 1, pat, NoBytes),
              IF Overflows(bound) /\ overflow_checks THEN Panic
              ELSE find_loop(pat, 0, Wrap(bound)))

\* find_bytes(pat): the loop bound is buffer.len() - (pat_len - 1) in usize
find_bytes(pat) ==
    LET last == Len(pat) - 1
        bound == buffer.len - Wrap(last)
    IN  Peeks(Call("find_bytes", 0, 0, 1, pat, NoBytes),
              IF (Overflows(last) \/ Overflows(bound)) /\ overflow_checks THEN Panic
              ELSE find_loop(pat, 0, Wrap(bound)))

\* len(), is_empty(), peek_remaining()
reader_len == Peeks(Call("len", 0, 0, 1, NoBytes, NoBytes), OkVal(EmptySlice, len))
reader_is_empty ==
    Peeks(Call("is_empty", 0, 0, 1, NoBytes, NoBytes),
          Result("Ok", EmptySlice, 0, is_empty, NoBytes))
reader_peek_remaining ==
    Peeks(Call("peek_remaining", 0, 0, 1, NoBytes, NoBytes), OkView(peek_remaining))

\* get_remaining(self): takes the reader by value
get_remaining ==
    /\ ~consumed
    /\ Returns(Call("get_remaining", 0, 0, 1, NoBytes, NoBytes), OkView(buffer), buffer)
    /\ NotAsked
    /\ consumed' = TRUE

\* dst[..n].copy_from_slice(src): a panic unless the lengths agree
copy_ok(dst, n, src) == n <= Len(dst) /\ n = Len(src)
copy_from_slice(dst, n, src) == src \o SubSeq(dst, n + 1, Len(dst))

\* <BufferReader as Read>::read(buf): n bytes are advanced over, then copied
\* a read that produces nothing when the destination is longer than what is left
read_n_all_or_nothing(buf) == IF check_available(Len(buf)) THEN Len(buf) ELSE 0

read_n(buf) == IF check_available(Len(buf)) THEN Len(buf) ELSE len

read(buf) ==
    LET n == read_n(buf)
        head == advance_head(n)
    IN  /\ ~consumed
        /\ IF ~advance_ok(n) THEN Returns(Call("read", 0, 0, 1, NoBytes, buf), Panic, buffer)
           ELSE IF ~copy_ok(buf, n, Bytes(head))
                THEN Returns(Call("read", 0, 0, 1, NoBytes, buf), Panic, advance_rest(n))
           ELSE Returns(Call("read", 0, 0, 1, NoBytes, buf),
                        Result("Ok", head, n, FALSE, copy_from_slice(buf, n, Bytes(head))),
                        advance_rest(n))
        /\ Asked(Len(buf), advance_ok(n), head)
        /\ UNCHANGED consumed

\* ------------------------------------------------------------ the system
\* new(slice): the reader holds the whole region; nothing has been called
Init ==
    /\ region \in Regions
    /\ buffer = [ptr |-> 0, len |-> Len(region)]
    /\ overflow_checks \in BOOLEAN
    /\ consumed = FALSE
    /\ call = [op |-> "new", a |-> 0, b |-> 0, size |-> 1, pat |-> NoBytes, dst |-> NoBytes,
               before |-> [ptr |-> 0, len |-> Len(region)], prev_end |-> 0]
    /\ result = OkView([ptr |-> 0, len |-> Len(region)])
    /\ requested = 0
    /\ last_end = 0
    /\ handed = [covered |-> {}, overlap |-> FALSE]
    /\ twin = [buffer |-> buffer, call |-> call, result |-> result]

Next ==
    \/ \E size \in TypeSizes : read_t(size)
    \/ \E start \in Offsets, size \in TypeSizes : peek_t(start, size)
    \/ \E count \in Counts, size \in TypeSizes : read_slice_t(count, size)
    \/ \E t \in PeekArgs : peek_slice_t(t[1], t[2], t[3])
    \/ read_byte
    \/ \E pos \in Offsets : peek_byte(pos)
    \/ \E n \in Offsets : read_bytes(n)
    \/ \E t \in PeekArgs : t[3] = 1 /\ peek_bytes(t[1], t[2])
    \/ reader_len
    \/ reader_is_empty
    \/ reader_peek_remaining
    \/ get_remaining
    \/ \E pat \in Patterns : find_bytes(pat)
    \/ \E buf \in DestBufs : read(buf)

Spec == Init /\ [][Next]_vars

\* Two readers made by new() over the same slice.  The calls go to the reader
\* held in buffer; the caller turns to the other reader, and this one becomes
\* the twin.
turn_to_twin ==
    /\ ~consumed
    /\ twin' = [buffer |-> buffer, call |-> call, result |-> result]
    /\ buffer' = twin.buffer
    /\ call' = twin.call
    /\ result' = twin.result
    /\ UNCHANGED <<region, overflow_checks, consumed, requested, last_end, handed>>

\* typed reads and byte reads on the two readers
NextRoundTrip ==
    \/ \E size \in TypeSizes : read_t(size)
    \/ \E n \in SmallArgs : read_bytes(n)
    \/ turn_to_twin

SpecRoundTrip == Init /\ [][NextRoundTrip]_vars

\* A reader that is read only through the stream adapter, into destination
\* buffers of length >= 1, by a caller that keeps reading (as read_to_end and
\* read_exact do) for as long as a read changes anything.
NextStream == \E buf \in DestBufs : Len(buf) >= 1 /\ read(buf)

SpecStream == Init /\ [][NextStream]_vars /\ WF_vars(NextStream)

\* ------------------------------------------------------------ properties
position == buffer.ptr
RegionLen == Len(region)
\* the state of the reader before the last call
position_before == call.before.ptr
remaining_before == call.before.len
\* region[a, b) as bytes
RegionBytes(a, b) == SubSeq(region, a + 1, b)

ConsumingOps == {"read_t", "read_slice_t", "read_byte", "read_bytes"}
PeekOps == {"peek_t", "peek_slice_t", "peek_byte", "peek_bytes", "peek_remaining",
            "find_bytes"}

\* C1: in every reachable state 0 <= position <= region.length, and the
\* remaining buffer ends at or before the end of the region.
C1_PositionInRegion ==
    /\ 0 <= position
    /\ position <= RegionLen
    /\ 0 <= buffer.len
    /\ position + buffer.len <= RegionLen

\* a failed call on a reader that earlier reads have moved to the end of a
\* non-empty region
C1_Witness ==
    /\ RegionLen > 0
    /\ position = RegionLen
    /\ call.op \in ConsumingOps \cup {"read"}
    /\ position_before = RegionLen
    /\ result.outcome = "Err"

\* C2: a consuming read that fails with OutOfBounds leaves the reader as it
\* was, so read_bytes(remaining length) then succeeds and returns the bytes it
\* would have returned before the failed call.
C2_FailedReadKeepsPosition ==
    (call.op \in ConsumingOps /\ result.outcome = "Err") =>
        /\ buffer = call.before
        /\ check_available(remaining_before)
        /\ advance_ok(remaining_before)
        /\ Bytes(advance_head(remaining_before))
             = RegionBytes(position_before, position_before + remaining_before)

\* read_bytes asking for more than is left of a reader that has bytes left
C2_Witness ==
    /\ call.op = "read_bytes"
    /\ result.outcome = "Err"
    /\ call.a > remaining_before
    /\ remaining_before > 0
    /\ position_before > 0

\* C3: read_bytes(n) fails with OutOfBounds exactly when n > remaining length;
\* when it succeeds it returns region[position, position + n) and advances
\* the position by n.
C3_ReadBytes ==
    call.op = "read_bytes" =>
        /\ result.outcome = (IF call.a > remaining_before THEN "Err" ELSE "Ok")
        /\ result.outcome = "Ok" =>
              /\ result.ret = [ptr |-> position_before, len |-> call.a]
              /\ Bytes(result.ret) = RegionBytes(position_before, position_before + call.a)
              /\ Len(Bytes(result.ret)) = call.a
              /\ position = position_before + call.a
              /\ buffer.len = remaining_before - call.a

\* read_bytes of everything that is left, from the middle of the region
C3_Witness ==
    /\ call.op = "read_bytes"
    /\ result.outcome = "Ok"
    /\ position_before > 0
    /\ call.a = remaining_before
    /\ call.a > 0

\* C4: as long as the byte lengths asked of the advancing calls so far sum to
\* at most region.length, a consuming read succeeds, the range it returns
\* starts where the previous returned range ended (the first at offset 0) and
\* ends where the next one will start, and the remaining length is
\* region.length minus the sum of the lengths asked.
C4_ReadsAreContiguous ==
    (call.op \in ConsumingOps /\ requested <= RegionLen) =>
        /\ result.outcome = "Ok"
        /\ result.ret.ptr = call.prev_end
        /\ result.ret.len >= 0
        /\ last_end = result.ret.ptr + result.ret.len
        /\ position = requested
        /\ buffer.len = RegionLen - requested

\* a second or later non-empty consuming read that ends exactly at the end of
\* the region
C4_Witness ==
    /\ call.op \in ConsumingOps
    /\ requested = RegionLen
    /\ call.prev_end > 0
    /\ result.outcome = "Ok"
    /\ result.ret.len > 0
    /\ buffer.len = 0

\* C5: a peek or search operation, whatever its arguments and whether it
\* succeeds, fails or panics, leaves the position and the remaining length
\* as they were.
C5_PeeksDoNotMove ==
    call.op \in PeekOps =>
        /\ position = position_before
        /\ buffer.len = remaining_before

\* a successful peek of a non-empty range on a reader that has moved
C5_Witness ==
    /\ call.op \in {"peek_t", "peek_slice_t", "peek_bytes"}
    /\ result.outcome = "Ok"
    /\ result.ret.len > 0
    /\ position_before > 0

\* C6: no call yields a position smaller than the one before it.
C6_PositionMonotone == position >= position_before

\* a call that moved a reader that had already moved
C6_Witness ==
    /\ position_before > 0
    /\ position > position_before

\* C7: peek_byte(offset) returns region[position + offset] when offset is
\* less than the remaining length and fails with the OutOfBounds error value,
\* not a panic, when it is not.
C7_PeekByteChecksOffset ==
    call.op = "peek_byte" =>
        IF call.a < remaining_before
        THEN /\ result.outcome = "Ok"
             /\ result.val = region[position_before + call.a + 1]
        ELSE result.outcome = "Err"

\* C8: find_bytes returns None, without a panic, whenever the pattern is
\* empty or longer than the remaining bytes.
C8_FindBytesDegeneratePattern ==
    (call.op = "find_bytes" /\ (Len(call.pat) = 0 \/ Len(call.pat) > remaining_before)) =>
        result.outcome = "None"

\* the offsets, relative to the position, at which pat occurs in the remaining
\* bytes
Occurrences(pat) ==
    {i \in 0 .. (remaining_before - Len(pat)) :
        RegionBytes(position_before + i, position_before + i + Len(pat)) = pat}

SetMin(S) == CHOOSE x \in S : \A y \in S : x <= y

\* C9: for a non-empty pattern no longer than the remaining bytes find_bytes
\* returns the smallest offset, relative to the position, at which the
\* pattern occurs, and None exactly when it occurs nowhere.
C9_FindBytesFirstMatch ==
    (call.op = "find_bytes" /\ Len(call.pat) >= 1 /\ Len(call.pat) <= remaining_before) =>
        IF Occurrences(call.pat) = {}
        THEN result.outcome = "None"
        ELSE /\ result.outcome = "Some"
             /\ result.val = SetMin(Occurrences(call.pat))

\* a match found after the position of a reader that has moved, ending at the
\* last byte of the region
C9_Witness ==
    /\ call.op = "find_bytes"
    /\ result.outcome = "Some"
    /\ position_before > 0
    /\ result.val > 0
    /\ position_before + result.val + Len(call.pat) = RegionLen

\* C10: the stream-adapter read never fails: with a destination of length L
\* it reports count = min(L, remaining length), copies
\* region[position, position + count) into the first count destination
\* bytes, leaves the others as they were and advances the position by count.
C10_StreamRead ==
    call.op = "read" =>
        LET L == Len(call.dst)
            count == Min(L, remaining_before)
        IN  /\ result.outcome = "Ok"
            /\ result.val = count
            /\ Len(result.dst) = L
            /\ SubSeq(result.dst, 1, count)
                 = RegionBytes(position_before, position_before + count)
            /\ \A i \in (count + 1) .. L : result.dst[i] = call.dst[i]
            /\ position = position_before + count
            /\ buffer.len = remaining_before - count

\* a short read: a destination longer than what is left of a reader that has
\* moved and has bytes left
C10_Witness ==
    /\ call.op = "read"
    /\ result.outcome = "Ok"
    /\ position_before > 0
    /\ remaining_before > 0
    /\ Len(call.dst) > remaining_before
    /\ result.val = remaining_before

\* C11: peek_bytes(offset, len) succeeds exactly when offset + len is at most
\* the remaining length, and then returns
\* region[position + offset, position + offset + len); otherwise it fails
\* with OutOfBounds.
C11_PeekBytes ==
    call.op = "peek_bytes" =>
        IF call.a + call.b <= remaining_before
        THEN /\ result.outcome = "Ok"
             /\ result.ret = [ptr |-> position_before + call.a, len |-> call.b]
             /\ Bytes(result.ret)
                  = RegionBytes(position_before + call.a, position_before + call.a + call.b)
        ELSE result.outcome = "Err"

\* C12: the offset of peek_t is relative to the position: with the reader at
\* position p and offset + sizeOf(T) at most the remaining length, peek_t
\* yields a view of region[p + offset, p + offset + sizeOf(T)).
C12_PeekTRelative ==
    (call.op = "peek_t" /\ call.a + call.size <= remaining_before) =>
        /\ result.outcome = "Ok"
        /\ result.ret = [ptr |-> position_before + call.a, len |-> call.size]
        /\ Bytes(result.ret)
             = RegionBytes(position_before + call.a, position_before + call.a + call.size)

\* peek_t at an offset after the position of a reader that has moved, of the
\* last bytes of the region
C12_Witness ==
    /\ call.op = "peek_t"
    /\ result.outcome = "Ok"
    /\ position_before > 0
    /\ call.a > 0
    /\ position_before + call.a + call.size = RegionLen

\* C13: read_t::<T>() on one reader and read_bytes(sizeOf(T)) on another
\* reader over the same region at the same position agree: both succeed or
\* both fail with OutOfBounds; on success both return the bytes
\* region[position, position + sizeOf(T)); both leave the same position.
C13_TypedAndByteReadsAgree ==
    (/\ call.op = "read_bytes"
     /\ twin.call.op = "read_t"
     /\ call.a = twin.call.size
     /\ call.before = twin.call.before) =>
        /\ result.outcome = twin.result.outcome
        /\ result.outcome \in {"Ok", "Err"}
        /\ result.outcome = "Ok" =>
              /\ Bytes(twin.result.ret) = Bytes(result.ret)
              /\ Bytes(result.ret)
                   = RegionBytes(position_before, position_before + call.a)
        /\ buffer = twin.buffer

\* both reads succeeded, on readers that earlier reads had moved
C13_Witness ==
    /\ call.op = "read_bytes"
    /\ twin.call.op = "read_t"
    /\ call.a = twin.call.size
    /\ call.before = twin.call.before
    /\ position_before > 0
    /\ call.a > 1
    /\ result.outcome = "Ok"

\* C14: the stored slice is region[position, region.length): len() is
\* region.length - position, is_empty() holds exactly when that is 0, and
\* peek_remaining() and get_remaining() return the bytes from the position to
\* the end of the region.
C14_StoredSliceIsRest ==
    /\ buffer.len = RegionLen - position
    /\ Bytes(buffer) = RegionBytes(position, RegionLen)
    /\ call.op = "len" => result.val = RegionLen - position
    /\ call.op = "is_empty" => (result.flag <=> RegionLen - position = 0)
    /\ call.op \in {"peek_remaining", "get_remaining"} =>
          /\ result.outcome = "Ok"
          /\ result.ret = [ptr |-> position, len |-> RegionLen - position]
          /\ Bytes(result.ret) = RegionBytes(position, RegionLen)
    /\ call.op = "get_remaining" <=> consumed

\* len() on a reader that has moved and has bytes left
C14_Witness ==
    /\ call.op = "len"
    /\ position > 0
    /\ result.val > 0
    /\ result.val = RegionLen - position

\* C15: read_slice_t(count) and peek_slice_t(offset, count) fail with
\* OutOfBounds, and read_slice_t does not advance, for every count whose
\* unbounded product with sizeOf(T) exceeds the remaining length, also when
\* the product wraps to a small value; no slice of count elements that
\* extends past the region is returned.
C15_SliceProductGuarded ==
    (call.op \in {"read_slice_t", "peek_slice_t"}
       /\ (IF call.op = "read_slice_t" THEN call.a ELSE call.b) * call.size > remaining_before) =>
        /\ result.outcome = "Err"
        /\ buffer = call.before
        /\ result.ret.ptr + result.ret.len <= RegionLen

\* C16: peek_t(offset), peek_bytes(offset, len) and peek_slice_t(offset, count)
\* fail with the OutOfBounds error value, not a panic, for every offset whose
\* unbounded end offset + size exceeds the remaining length, also when
\* offset + size overflows usize.
C16_PeekEndGuarded ==
    (call.op \in {"peek_t", "peek_bytes", "peek_slice_t"}
       /\ call.a + (CASE call.op = "peek_t" -> call.size
                      [] call.op = "peek_bytes" -> call.b
                      [] OTHER -> call.b * call.size) > remaining_before) =>
        result.outcome = "Err"

\* C17: a reader read only through the stream adapter with destinations of
\* length >= 1 eventually becomes empty; a read with a destination longer than
\* what is left empties it in that one call; once the reader is empty every
\* further read succeeds, reports 0 bytes and leaves it empty.
C17_StreamReachesEnd ==
    /\ <>(buffer.len = 0)
    /\ [][/\ Len(call'.dst) > buffer.len => buffer'.len = 0
          /\ buffer.len = 0 =>
                /\ result'.outcome = "Ok"
                /\ result'.val = 0
                /\ buffer'.len = 0]_vars

\* a read of an empty reader that earlier stream reads have emptied
C17_Witness ==
    /\ call.op = "read"
    /\ RegionLen > 1
    /\ position_before = RegionLen
    /\ remaining_before = 0
    /\ result.outcome = "Ok"
    /\ result.val = 0
    /\ buffer.len = 0

\* the bytes a successful consuming read asked for
AskedBytes ==
    CASE call.op = "read_bytes" -> call.a
      [] call.op = "read_slice_t" -> call.a * call.size
      [] OTHER -> call.size

\* C18: callers that share the reader through &self interleave their calls in
\* any order, each call one atomic step; the behaviours of Spec are these
\* interleavings (who makes a call does not enter the code).  The ranges
\* returned by the successful consuming reads never overlap, together they
\* cover exactly region[0, position), and each read returns the bytes that
\* start at the position current at its call, whatever peeks and failed reads
\* came in between.
C18_SharedReadsPartitionRegion ==
    /\ ~handed.overlap
    /\ handed.covered = 0 .. (position - 1)
    /\ (call.op \in ConsumingOps /\ result.outcome = "Ok") =>
          /\ result.ret = [ptr |-> position_before, len |-> AskedBytes]
          /\ position_before + AskedBytes <= RegionLen
          /\ Bytes(result.ret) = RegionBytes(position_before, position_before + AskedBytes)

AdvancingOps == ConsumingOps \cup {"read"}

\* the len that the last call passed to advance
AdvancedBy ==
    CASE call.op = "read_bytes" -> call.a
      [] call.op = "read_slice_t" -> Wrap(call.a * call.size)
      [] call.op = "read" -> result.val
      [] OTHER -> call.size

\* C19: only advance changes the position, and on every path advance(n) is
\* called with n at most the remaining length (after check_available(n)
\* passed, or with n limited to the remaining length), so its slicing never
\* panics: the only panic of an advancing call is the overflow of
\* read_slice_t's product.
C19_AdvanceIsGated ==
    /\ buffer # call.before => (call.op \in AdvancingOps /\ result.outcome = "Ok")
    /\ (call.op \in AdvancingOps /\ result.outcome = "Ok") =>
          /\ AdvancedBy <= remaining_before
          /\ buffer = SubSlice(call.before, AdvancedBy, remaining_before)
    /\ (call.op \in AdvancingOps /\ result.outcome = "Panic") =>
          /\ call.op = "read_slice_t"
          /\ overflow_checks
          /\ Overflows(call.a * call.size)

\* read_slice_t whose product wrapped to a length that was available, and
\* advanced by it
C19_Witness ==
    /\ call.op = "read_slice_t"
    /\ result.outcome = "Ok"
    /\ Overflows(call.a * call.size)
    /\ AdvancedBy > 0
    /\ position = position_before + AdvancedBy

====
